---- MODULE Spec2Model ----
(***************************************************************************)
(* Model of slack-diskbot (script.py): one run of main() -- credential     *)
(* resolution, disk_partitions(), select_disk_partitions(), the alert loop *)
(* and slack_print() -- plus direct calls of disk_partitions() and of      *)
(* Partition.proportion_free().                                            *)
(*                                                                         *)
(* Python str values that the code inspects character by character         *)
(* (startswith, split, strip) are sequences of one-character strings.      *)
(***************************************************************************)
EXTENDS Integers, Sequences, FiniteSets, TLC

\* ------------------------------------------------------------------ bounds
\* Longest /etc/mtab considered (number of lines).
MaxMounts == 2
\* Largest byte count handed to Partition.proportion_free in SpecPF.
MaxBytes == 9

\* ------------------------------------------------------- python str helpers
None == "None"

IsSpace(c) == c \in {" ", "\t", "\n"}

\* str.startswith(prefix)
StartsWith(s, p) == Len(s) >= Len(p) /\ SubSeq(s, 1, Len(p)) = p

RECURSIVE SplitFrom(_, _, _, _)
SplitFrom(s, k, cur, acc) ==
    IF k > Len(s)
    THEN (IF cur = <<>> THEN acc ELSE Append(acc, cur))
    ELSE IF IsSpace(s[k])
         THEN SplitFrom(s, k + 1, <<>>, IF cur = <<>> THEN acc ELSE Append(acc, cur))
         ELSE SplitFrom(s, k + 1, Append(cur, s[k]), acc)

\* str.split(): the maximal runs of non-whitespace characters, in order
Split(s) == SplitFrom(s, 1, <<>>, <<>>)

RECURSIVE LStrip(_)
LStrip(s) == IF s # <<>> /\ IsSpace(s[1]) THEN LStrip(Tail(s)) ELSE s

RECURSIVE RStrip(_)
RStrip(s) == IF s # <<>> /\ IsSpace(s[Len(s)]) THEN RStrip(SubSeq(s, 1, Len(s) - 1)) ELSE s

\* str.strip()
Strip(s) == RStrip(LStrip(s))

\* x in list
InList(x, l) == \E k \in 1..Len(l) : l[k] = x

\* -------------------------------------------------------- string literals
S_none  == <<"n", "o", "n", "e">>
S_nodev == <<"n", "o", "d", "e", "v">>
S_snap  == <<"/", "s", "n", "a", "p">>
S_boot  == <<"/", "b", "o", "o", "t">>

\* ------------------------------------------------ the environment's inputs
F_ext4  == <<"e", "x", "t", "4">>
F_vfat  == <<"v", "f", "a", "t">>
F_tmpfs == <<"t", "m", "p", "f", "s">>

D_sda1     == <<"/", "d", "e", "v", "/", "s", "d", "a", "1">>
D_sda2     == <<"/", "d", "e", "v", "/", "s", "d", "a", "2">>
D_loop0    == <<"/", "d", "e", "v", "/", "l", "o", "o", "p", "0">>
D_tmpfs    == F_tmpfs
D_nonesuch == <<"n", "o", "n", "e", "s", "u", "c", "h">>

M_root == <<"/">>
M_home == <<"/", "h", "o", "m", "e">>
M_efi  == <<"/", "b", "o", "o", "t", "/", "e", "f", "i">>
M_snap == <<"/", "s", "n", "a", "p", "/", "c", "o", "r", "e">>
M_run  == <<"/", "r", "u", "n">>
M_tmp  == <<"/", "t", "m", "p">>
M_data == <<"/", "d", "a", "t", "a">>
M_mnt  == <<"/", "m", "n", "t">>

\* One /etc/mtab line: "<device> <mountpoint> <fstype> rw 0 0\n"
MtabLine(dev, mp, fs) ==
    dev \o <<" ">> \o mp \o <<" ">> \o fs \o <<" ", "r", "w", " ", "0", " ", "0", "\n">>

\* The mtab lines a run may meet.
MtabLines ==
    { MtabLine(D_sda1, M_root, F_ext4),
      MtabLine(D_sda1, M_home, F_ext4),
      MtabLine(D_sda2, M_efi, F_vfat),
      MtabLine(D_loop0, M_snap, F_ext4),
      MtabLine(S_none, M_run, F_tmpfs),
      MtabLine(D_tmpfs, M_tmp, F_tmpfs),
      MtabLine(S_none, M_mnt, F_ext4),
      MtabLine(D_nonesuch, M_data, F_ext4) }

\* /proc/filesystems: "nodev\t<type>\n" for a type without a device,
\* "\t<type>\n" otherwise.
ProcFilesystems ==
    << S_nodev \o <<"\t">> \o F_tmpfs \o <<"\n">>,
       <<"\t">> \o F_ext4 \o <<"\n">>,
       <<"\t">> \o F_vfat \o <<"\n">> >>

\* os.statvfs results: f_frsize, f_blocks, f_bfree, f_bavail.
StatResults ==
    { [f_frsize |-> 500, f_blocks |-> 4, f_bfree |-> 2, f_bavail |-> 1],
      [f_frsize |-> 500, f_blocks |-> 4, f_bfree |-> 3, f_bavail |-> 2],
      [f_frsize |-> 500, f_blocks |-> 4, f_bfree |-> 4, f_bavail |-> 3] }

\* --token / SLACK_BOT_TOKEN: absent, empty or a value.
TokenArgs == {None, "", "xoxb-arg"}
EnvTokens == {None, "", "xoxb-env"}
Channels  == {"#slack-bot-playground", "#compute"}

\* bitmath unit sizes in bytes.
UnitBytes(unit) == IF unit = "kB" THEN 1000 ELSE 1
\* --threshold as parsed by BitmathType: a coefficient and a unit.
Thresholds == { [value |-> 1, unit |-> "kB"] }

Hostname == "host.example.org"

\* What slack_sdk's chat_postMessage can do: return, raise SlackApiError
\* carrying the response, or raise another exception (no connection).
ApiResponses ==
    { [ok |-> FALSE, error |-> "invalid_auth"],
      [status |-> 500, body |-> "<html>"] }
PostOutcomes ==
    { [kind |-> "ok"], [kind |-> "URLError"] }
    \cup { [kind |-> "SlackApiError", response |-> r] : r \in ApiResponses }

\* ------------------------------------------------------------ Partition
\* bitmath value / bitmath value: a float quotient, or ZeroDivisionError.
RECURSIVE Gcd(_, _)
Gcd(a, b) == IF b = 0 THEN a ELSE Gcd(b, a % b)

TrueDiv(a, b) ==
    IF b = 0 THEN [kind |-> "raise", exc |-> "ZeroDivisionError"]
    ELSE [kind |-> "float", num |-> a \div Gcd(a, b), den |-> b \div Gcd(a, b)]

\* float('nan')
NaN == [kind |-> "nan"]

\* A bug that tests the wrong field before dividing.
proportion_free_WrongGuard(self) ==
    IF self.free_bytes = 0 THEN NaN
    ELSE TrueDiv(self.free_bytes, self.total_bytes)

\* Partition.proportion_free
proportion_free(self) ==
    IF self.total_bytes = 0 THEN NaN
    ELSE TrueDiv(self.free_bytes, self.total_bytes)

\* Partition.report_str: the parts the f-string renders.
report_str(self) ==
    [free |-> self.free_bytes, total |-> self.total_bytes,
     device |-> self.device, mountpoint |-> self.mountpoint]

\* ------------------------------------------------------ disk_partitions
\* The loop over /proc/filesystems: keep the stripped lines not starting
\* with "nodev".
RECURSIVE PhyDevs(_)
PhyDevs(lines) ==
    IF lines = <<>> THEN <<>>
    ELSE (IF ~StartsWith(Head(lines), S_nodev) THEN <<Strip(Head(lines))>> ELSE <<>>)
         \o PhyDevs(Tail(lines))

\* First skip test of the mtab loop.
SkipNoneLine(line, include_virtual) ==
    ~include_virtual /\ StartsWith(line, S_none)

\* Second skip test of the mtab loop.
SkipFstype(fstype, include_virtual, phys) ==
    ~include_virtual /\ ~InList(fstype, phys)

\* device == 'none' becomes ''.
NormDevice(device) == IF device = S_none THEN <<>> ELSE device

\* The Partition built from the fields of a line and its statvfs result.
MakePartition(device, mountpoint, fstype, st) ==
    [device      |-> device,
     mountpoint  |-> mountpoint,
     fstype      |-> fstype,
     total_bytes |-> st.f_blocks * st.f_frsize,
     used_bytes  |-> (st.f_blocks - st.f_bfree) * st.f_frsize,
     free_bytes  |-> st.f_bavail * st.f_frsize]

\* ------------------------------------------------ select_disk_partitions
\* A bug that forgets the /boot test.
Selectable_NoBoot(p) ==
    /\ Len(p.mountpoint) > 0
    /\ ~StartsWith(p.mountpoint, S_snap)

\* The condition under which a partition is kept.
Selectable(p) ==
    /\ Len(p.mountpoint) > 0
    /\ ~StartsWith(p.mountpoint, S_snap)
    /\ ~StartsWith(p.mountpoint, S_boot)

RECURSIVE SelectFrom(_)
SelectFrom(parts) ==
    IF parts = <<>> THEN <<>>
    ELSE (IF Selectable(Head(parts)) THEN <<Head(parts)>> ELSE <<>>)
         \o SelectFrom(Tail(parts))

\* ------------------------------------------------------------------ main
Truthy(s) == s # None /\ s # ""

\* A bug that lets the environment override the argument.
ResolveToken_EnvFirst(tok, env) == IF Truthy(env) THEN env ELSE tok

\* token or os.environ.get('SLACK_BOT_TOKEN')
ResolveToken(tok, env) == IF Truthy(tok) THEN tok ELSE env

\* A bug that tests for the empty string instead of None.
TokenMissing_Empty(tok) == tok = ""

\* if token is None
TokenMissing(tok) == tok = None

\* bitmath's .bytes of the parsed threshold.
ToBytes(q) == q.value * UnitBytes(q.unit)

\* A bug that alerts at the threshold too.
BelowThreshold_OrEqual(part, threshold) == part.free_bytes <= ToBytes(threshold)

\* part.free_bytes < warning_threshold (bitmath compares byte values).
BelowThreshold(part, threshold) == part.free_bytes < ToBytes(threshold)

\* The alert text: the parts the f-string renders.
AlertMsg(part, threshold) ==
    [host |-> Hostname, device |-> part.device, threshold |-> threshold,
     report |-> report_str(part)]

Diagnostic == [diag |-> "Unable to print to Slack because SLACK_BOT_TOKEN env var not set"]

\* ----------------------------------------------------------- slack_print
\* A bug that drops the channel argument, leaving slack_print's default.
PostArgs_DefaultChannel(text, tok, chan) ==
    [token |-> tok, channel |-> "#slack-bot-playground", text |-> text,
     username |-> "Human-Compatible Disk Alert Bot", icon_emoji |-> ":chai:"]

\* The keyword arguments of client.chat_postMessage and the client's token.
PostArgs(text, tok, chan) ==
    [token |-> tok, channel |-> chan, text |-> text,
     username |-> "Human-Compatible Disk Alert Bot", icon_emoji |-> ":chai:"]

\* Whether the except clause catches the raised exception.
Caught(outcome) == outcome.kind = "SlackApiError"

\* Whether the handler's two asserts and its print go through:
\* e.response["ok"] is False, and e.response["error"] is truthy.
HandlerCompletes(response) ==
    /\ "ok" \in DOMAIN response
    /\ response.ok = FALSE
    /\ "error" \in DOMAIN response
    /\ response.error # ""

ErrorLine(response) == [error |-> response.error]

\* ================================================================ state
VARIABLES
    entry,                   \* which function the run calls: main, disk_partitions, proportion_free
    token_arg,               \* --token
    env_token,               \* os.environ.get('SLACK_BOT_TOKEN')
    channel,                 \* --channel
    warning_threshold,       \* --threshold
    mtab,                    \* the lines of /etc/mtab
    include_virtual_devices, \* disk_partitions' parameter
    pc,                      \* position of the run
    token,                   \* main's local token after line 105
    phydevs,                 \* disk_partitions' local
    line_no,                 \* index of the next mtab line of the loop at line 47
    result,                  \* disk_partitions' local, then its return value
    selected,                \* what select_disk_partitions returned
    part_no,                 \* index of the next partition of the loop at line 110
    msg,                     \* main's local msg
    console,                 \* what was printed, in order
    posts,                   \* the chat_postMessage calls made, in order, with their outcome
    stat_calls,              \* the mountpoints os.statvfs was called on, in order
    opened,                  \* the files opened, in order
    alerts,                  \* the alert messages constructed, in order
    raised,                  \* the exception that ended the run, if any
    exit_code,               \* the process exit code once the run is over
    self_arg,                \* the Partition proportion_free is called on
    returned                 \* what proportion_free returned or raised

vars == <<entry, token_arg, env_token, channel, warning_threshold, mtab,
          include_virtual_devices, pc, token, phydevs, line_no, result, selected,
          part_no, msg, console, posts, stat_calls, opened, alerts, raised,
          exit_code, self_arg, returned>>

inputs == <<entry, token_arg, env_token, channel, warning_threshold, mtab,
            include_virtual_devices, self_arg>>

dp_locals == <<phydevs, line_no, result>>
main_locals == <<token, selected, part_no, msg>>
outputs == <<console, posts, alerts>>

\* Sequences over S of length at most n.
SeqsUpTo(S, n) == UNION { [1..k -> S] : k \in 0..n }

Mtabs == SeqsUpTo(MtabLines, MaxMounts)

Locals0 ==
    /\ token = None
    /\ phydevs = <<>>
    /\ line_no = 0
    /\ result = <<>>
    /\ selected = <<>>
    /\ part_no = 0
    /\ msg = None
    /\ console = <<>>
    /\ posts = <<>>
    /\ stat_calls = <<>>
    /\ opened = <<>>
    /\ alerts = <<>>
    /\ raised = None
    /\ exit_code = None
    /\ returned = [kind |-> "none"]

\* A run of main(token, warning_threshold, channel).
Init ==
    /\ entry = "main"
    /\ token_arg \in TokenArgs
    /\ env_token \in EnvTokens
    /\ channel \in Channels
    /\ warning_threshold \in Thresholds
    /\ mtab \in Mtabs
    /\ include_virtual_devices = FALSE
    /\ self_arg = None
    /\ pc = "main"
    /\ Locals0

\* ------------------------------------------------------------- main 105-108
Main_Credential ==
    /\ pc = "main"
    /\ token' = ResolveToken(token_arg, env_token)
    /\ IF TokenMissing(token')
       THEN /\ console' = Append(console, Diagnostic)
            /\ raised' = "SystemExit"
            /\ exit_code' = 1
            /\ pc' = "exited"
       ELSE /\ pc' = "dp_filesystems"
            /\ UNCHANGED <<console, raised, exit_code>>
    /\ UNCHANGED <<inputs, dp_locals, selected, part_no, msg, posts, stat_calls,
                   opened, alerts, returned>>

\* An exception nobody catches ends the process with status 1.
Crash(exc) ==
    /\ raised' = exc
    /\ exit_code' = 1
    /\ pc' = "crashed"

\* -------------------------------------------------- disk_partitions 39-43
DP_ReadFilesystems ==
    /\ pc = "dp_filesystems"
    /\ \E can_open \in BOOLEAN :
         IF can_open
         THEN /\ opened' = Append(opened, "/proc/filesystems")
              /\ phydevs' = PhyDevs(ProcFilesystems)
              /\ pc' = "dp_mtab"
              /\ UNCHANGED <<raised, exit_code>>
         ELSE /\ Crash("OSError")
              /\ UNCHANGED <<opened, phydevs>>
    /\ UNCHANGED <<inputs, main_locals, outputs, line_no, result, stat_calls, returned>>

\* -------------------------------------------------- disk_partitions 45-46
DP_OpenMtab ==
    /\ pc = "dp_mtab"
    /\ \E can_open \in BOOLEAN :
         IF can_open
         THEN /\ opened' = Append(opened, "/etc/mtab")
              /\ result' = <<>>
              /\ line_no' = 1
              /\ pc' = "dp_line"
              /\ UNCHANGED <<raised, exit_code>>
         ELSE /\ Crash("OSError")
              /\ UNCHANGED <<opened, result, line_no>>
    /\ UNCHANGED <<inputs, main_locals, outputs, phydevs, stat_calls, returned>>

\* -------------------------------- disk_partitions 47-74, one mtab line
\* A bug that swallows the error and goes on to the next line.
StatFailed_Skip ==
    /\ line_no' = line_no + 1
    /\ UNCHANGED <<result, pc, raised, exit_code>>

\* os.statvfs raises: nothing in disk_partitions or its callers catches it.
StatFailed ==
    /\ Crash("OSError")
    /\ UNCHANGED <<result, line_no>>

DP_Skip ==
    /\ pc = "dp_line"
    /\ line_no <= Len(mtab)
    /\ LET line   == mtab[line_no]
           fields == Split(line)
       IN  \/ SkipNoneLine(line, include_virtual_devices)
           \/ SkipFstype(fields[3], include_virtual_devices, phydevs)
    /\ line_no' = line_no + 1
    /\ UNCHANGED <<inputs, main_locals, outputs, phydevs, result, stat_calls, opened,
                   raised, exit_code, pc, returned>>

DP_Stat ==
    /\ pc = "dp_line"
    /\ line_no <= Len(mtab)
    /\ LET line       == mtab[line_no]
           fields     == Split(line)
           device     == NormDevice(fields[1])
           mountpoint == fields[2]
           fstype     == fields[3]
       IN  /\ ~SkipNoneLine(line, include_virtual_devices)
           /\ ~SkipFstype(fstype, include_virtual_devices, phydevs)
           /\ stat_calls' = Append(stat_calls, mountpoint)
           /\ \/ \E st \in StatResults :
                   /\ result' = Append(result, MakePartition(device, mountpoint, fstype, st))
                   /\ line_no' = line_no + 1
                   /\ UNCHANGED <<pc, raised, exit_code>>
              \/ StatFailed
    /\ UNCHANGED <<inputs, main_locals, outputs, phydevs, opened, returned>>

\* ------------------------------------------------------ disk_partitions 75
DP_Return ==
    /\ pc = "dp_line"
    /\ line_no > Len(mtab)
    /\ pc' = IF entry = "main" THEN "select" ELSE "returned"
    /\ UNCHANGED <<inputs, main_locals, outputs, dp_locals, stat_calls, opened,
                   raised, exit_code, returned>>

\* ------------------------------------------- select_disk_partitions 80-84
Select ==
    /\ pc = "select"
    /\ selected' = SelectFrom(result)
    /\ part_no' = 1
    /\ pc' = "loop"
    /\ UNCHANGED <<inputs, dp_locals, token, msg, outputs, stat_calls, opened,
                   raised, exit_code, returned>>

\* ------------------------------------------------------------ main 110-117
Main_Evaluate ==
    /\ pc = "loop"
    /\ part_no <= Len(selected)
    /\ LET part == selected[part_no]
       IN  IF BelowThreshold(part, warning_threshold)
           THEN /\ msg' = AlertMsg(part, warning_threshold)
                /\ alerts' = Append(alerts, msg')
                /\ pc' = "print"
                /\ UNCHANGED part_no
           ELSE /\ part_no' = part_no + 1
                /\ UNCHANGED <<msg, alerts, pc>>
    /\ UNCHANGED <<inputs, dp_locals, token, selected, console, posts, stat_calls,
                   opened, raised, exit_code, returned>>

\* ----------------------------------------------------------------- main 118
Main_Print ==
    /\ pc = "print"
    /\ console' = Append(console, msg)
    /\ pc' = "send"
    /\ UNCHANGED <<inputs, dp_locals, main_locals, posts, alerts, stat_calls,
                   opened, raised, exit_code, returned>>

\* ------------------------------------- main 119 and slack_print 87-101
SlackPrint ==
    /\ pc = "send"
    /\ \E outcome \in PostOutcomes :
         /\ posts' = Append(posts, [args |-> PostArgs(msg, token, channel),
                                    outcome |-> outcome.kind])
         /\ IF outcome.kind = "ok"
            THEN /\ part_no' = part_no + 1
                 /\ pc' = "loop"
                 /\ UNCHANGED <<console, raised, exit_code>>
            ELSE IF ~Caught(outcome)
            THEN /\ Crash(outcome.kind)
                 /\ UNCHANGED <<console, part_no>>
            ELSE IF HandlerCompletes(outcome.response)
            THEN /\ console' = Append(console, ErrorLine(outcome.response))
                 /\ part_no' = part_no + 1
                 /\ pc' = "loop"
                 /\ UNCHANGED <<raised, exit_code>>
            ELSE /\ Crash("AssertionError")
                 /\ UNCHANGED <<console, part_no>>
    /\ UNCHANGED <<inputs, dp_locals, token, selected, msg, alerts, stat_calls,
                   opened, returned>>

\* ------------------------------------------------- main: the loop is over
Main_Done ==
    /\ pc = "loop"
    /\ part_no > Len(selected)
    /\ exit_code' = 0
    /\ pc' = "done"
    /\ UNCHANGED <<inputs, dp_locals, main_locals, outputs, stat_calls, opened,
                   raised, returned>>

Next ==
    \/ Main_Credential
    \/ DP_ReadFilesystems
    \/ DP_OpenMtab
    \/ DP_Skip
    \/ DP_Stat
    \/ DP_Return
    \/ Select
    \/ Main_Evaluate
    \/ Main_Print
    \/ SlackPrint
    \/ Main_Done

Spec == Init /\ [][Next]_vars

\* ------------------------------------ a direct call of disk_partitions
InitDP ==
    /\ entry = "disk_partitions"
    /\ token_arg = None
    /\ env_token = None
    /\ channel = "#slack-bot-playground"
    /\ warning_threshold \in Thresholds
    /\ mtab \in Mtabs
    /\ include_virtual_devices \in BOOLEAN
    /\ self_arg = None
    /\ pc = "dp_filesystems"
    /\ Locals0

NextDP ==
    \/ DP_ReadFilesystems
    \/ DP_OpenMtab
    \/ DP_Skip
    \/ DP_Stat
    \/ DP_Return

SpecDP == InitDP /\ [][NextDP]_vars

\* --------------------------- a direct call of Partition.proportion_free
Partitions ==
    { [device |-> D_sda1, mountpoint |-> M_root, fstype |-> F_ext4,
       total_bytes |-> t, used_bytes |-> 0, free_bytes |-> f] :
      t \in 0..MaxBytes, f \in 0..MaxBytes }

InitPF ==
    /\ entry = "proportion_free"
    /\ token_arg = None
    /\ env_token = None
    /\ channel = "#slack-bot-playground"
    /\ warning_threshold \in Thresholds
    /\ mtab = <<>>
    /\ include_virtual_devices = FALSE
    /\ self_arg \in Partitions
    /\ pc = "pf_call"
    /\ Locals0

PF_Call ==
    /\ pc = "pf_call"
    /\ LET r == proportion_free(self_arg)
       IN  IF r.kind = "raise"
           THEN /\ Crash(r.exc)
                /\ UNCHANGED returned
           ELSE /\ returned' = r
                /\ pc' = "returned"
                /\ UNCHANGED <<raised, exit_code>>
    /\ UNCHANGED <<inputs, dp_locals, main_locals, outputs, stat_calls, opened>>

NextPF == PF_Call

SpecPF == InitPF /\ [][NextPF]_vars

\* =============================================================== claims
\* The process has ended.
RunOver == pc \in {"done", "exited", "crashed"}

ThresholdBytes == warning_threshold.value * UnitBytes(warning_threshold.unit)

\* The alerts the partitions of ps call for: one per partition whose
\* free_bytes is strictly below the threshold, in the order of ps.
RECURSIVE ExpectedAlerts(_)
ExpectedAlerts(ps) ==
    IF ps = <<>> THEN <<>>
    ELSE (IF Head(ps).free_bytes < ThresholdBytes
          THEN <<[host |-> Hostname, device |-> Head(ps).device,
                  threshold |-> warning_threshold, report |-> report_str(Head(ps))]>>
          ELSE <<>>)
         \o ExpectedAlerts(Tail(ps))

\* How many selected partitions the loop at line 110 has decided on.
Evaluated == IF pc \in {"loop", "done"} THEN part_no - 1 ELSE part_no

IsAlert(e) == "report" \in DOMAIN e
PrintedAlerts == SelectSeq(console, IsAlert)
PostedTexts == [k \in 1..Len(posts) |-> posts[k].args.text]

C2_FailureNeverAborts ==
    (entry = "main" /\ RunOver
       /\ \E k \in 1..Len(posts) : posts[k].outcome # "ok") =>
        /\ alerts = ExpectedAlerts(selected)
        /\ PrintedAlerts = alerts
        /\ PostedTexts = alerts

\* C3: with no explicit token and no SLACK_BOT_TOKEN, main ends with exit
\* code 1 after printing the diagnostic, having opened no file, queried no
\* mountpoint, constructed or printed no alert and posted nothing.
C3_NoCredentialExits ==
    (entry = "main" /\ ~Truthy(token_arg) /\ env_token = None /\ pc # "main") =>
        /\ pc = "exited"
        /\ exit_code = 1
        /\ console = <<Diagnostic>>
        /\ opened = <<>>
        /\ stat_calls = <<>>
        /\ alerts = <<>>
        /\ posts = <<>>

C3_Witness ==
    /\ pc = "exited"
    /\ token_arg = ""
    /\ env_token = None
    /\ exit_code = 1

\* C4: every constructed alert is printed once, before its chat_postMessage
\* call, whatever that call's outcome; the call is made once per alert, with
\* the same text and the configured channel.
C4_PrintedOnceThenPostedOnce ==
    entry = "main" =>
        /\ PrintedAlerts = (IF pc = "print" THEN SubSeq(alerts, 1, Len(alerts) - 1) ELSE alerts)
        /\ PostedTexts = (IF pc \in {"print", "send"}
                          THEN SubSeq(alerts, 1, Len(alerts) - 1) ELSE alerts)
        /\ Len(posts) <= Len(PrintedAlerts)
        /\ \A k \in 1..Len(posts) : posts[k].args.channel = channel

C4_Witness ==
    /\ Len(posts) = 2
    /\ posts[1].outcome = "SlackApiError"
    /\ posts[2].outcome = "ok"
    /\ channel = "#compute"
    /\ PrintedAlerts = alerts
    /\ Len(alerts) = 2

\* C5: with a resolved credential and a scan that went through, the run
\* ends with exit code 0 whichever chat_postMessage calls failed.
C5_ExitZeroDespiteFailures ==
    (entry = "main" /\ RunOver /\ token # None /\ raised # "OSError") =>
        exit_code = 0

\* The indices of the partitions of ps that the selection is to keep.
KeptIndices(ps) ==
    { k \in 1..Len(ps) :
        /\ ps[k].mountpoint # <<>>
        /\ ~StartsWith(ps[k].mountpoint, <<"/", "s", "n", "a", "p">>)
        /\ ~StartsWith(ps[k].mountpoint, <<"/", "b", "o", "o", "t">>) }

\* The j-th smallest element of the set of integers K.
Nth(K, j) == CHOOSE k \in K : Cardinality({ i \in K : i <= k }) = j

\* C6: select_disk_partitions returns the enumerated partitions whose
\* mountpoint is non-empty and begins with neither /snap nor /boot, all of
\* them, unchanged and in enumeration order.
C6_SelectKeepsExactly ==
    (entry = "main" /\ pc \in {"loop", "print", "send", "done"}) =>
        /\ include_virtual_devices = FALSE
        /\ Len(selected) = Cardinality(KeptIndices(result))
        /\ \A j \in 1..Len(selected) : selected[j] = result[Nth(KeptIndices(result), j)]

C6_Witness ==
    /\ pc = "loop"
    /\ Len(result) = 2
    /\ StartsWith(result[1].mountpoint, S_boot)
    /\ result[2].mountpoint = M_home
    /\ selected = <<result[2]>>

\* The registry's types that carry no "nodev" marker.
PhysicalTypes ==
    { Split(ProcFilesystems[k])[1] :
        k \in { i \in 1..Len(ProcFilesystems) : Len(Split(ProcFilesystems[i])) = 1 } }

\* The mtab entries the enumeration is to emit, as <<device, mountpoint>>.
RECURSIVE ExpectedEntries(_, _)
ExpectedEntries(lines, iv) ==
    IF lines = <<>> THEN <<>>
    ELSE LET f == Split(Head(lines))
         IN  (IF iv
              THEN << <<(IF f[1] = S_none THEN <<>> ELSE f[1]), f[2]>> >>
              ELSE IF f[1] # S_none /\ f[3] \in PhysicalTypes
              THEN << <<f[1], f[2]>> >>
              ELSE <<>>)
             \o ExpectedEntries(Tail(lines), iv)

\* C7: disk_partitions(False) emits, in mtab order, one Partition for each
\* entry whose device is not "none" and whose type is a registry type without
\* the marker, and queries no statistics for the others;
\* disk_partitions(True) emits every entry, with device "none" as "".
C7_EnumeratesExactly ==
    (entry = "disk_partitions" /\ pc = "returned") =>
        /\ [k \in 1..Len(result) |-> <<result[k].device, result[k].mountpoint>>]
             = ExpectedEntries(mtab, include_virtual_devices)
        /\ stat_calls = [k \in 1..Len(result) |-> result[k].mountpoint]

\* C8: proportion_free gives nan and raises nothing when total_bytes is 0,
\* whatever free_bytes is, and free_bytes / total_bytes otherwise.
C8_ProportionFree ==
    (entry = "proportion_free" /\ pc # "pf_call") =>
        /\ raised = None
        /\ pc = "returned"
        /\ IF self_arg.total_bytes = 0
           THEN returned = [kind |-> "nan"]
           ELSE /\ returned.kind = "float"
                /\ returned.num * self_arg.total_bytes = returned.den * self_arg.free_bytes

C8_Witness ==
    /\ pc = "returned"
    /\ self_arg.total_bytes = 0
    /\ self_arg.free_bytes > 0
    /\ returned.kind = "nan"

\* C9: the enumeration is over before any alert is decided: an alert, a
\* printed line or a post exists only once both tables were opened and
\* every mtab line was handled; every statistics query either yields a
\* partition or ends the run with the error, and a run ended by an I/O error
\* has printed nothing and posted nothing.
C9_ScanCompletesFirst ==
    entry = "main" =>
        /\ (alerts # <<>> \/ posts # <<>> \/ PrintedAlerts # <<>>) =>
              /\ opened = <<"/proc/filesystems", "/etc/mtab">>
              /\ line_no = Len(mtab) + 1
              /\ Len(stat_calls) = Len(result)
        /\ \/ Len(stat_calls) = Len(result)
           \/ raised = "OSError" /\ Len(stat_calls) = Len(result) + 1
        /\ raised = "OSError" =>
              /\ pc = "crashed"
              /\ exit_code = 1
              /\ alerts = <<>>
              /\ console = <<>>
              /\ posts = <<>>

C9_Witness ==
    /\ raised = "OSError"
    /\ Len(stat_calls) = 2
    /\ Len(result) = 1
    /\ result[1].mountpoint = M_root
    /\ result[1].free_bytes < ThresholdBytes
    /\ console = <<>>
    /\ posts = <<>>

\* C10: the credential is the explicit token when one is given and not
\* empty, the environment's value otherwise, and every post of the run
\* carries that credential and the run's channel.
C10_CredentialPrecedence ==
    (entry = "main" /\ pc # "main") =>
        /\ token = (IF token_arg \notin {None, ""} THEN token_arg ELSE env_token)
        /\ \A k \in 1..Len(posts) :
              /\ posts[k].args.token = token
              /\ posts[k].args.channel = posts[1].args.channel

C10_Witness ==
    /\ Len(posts) = 2
    /\ token_arg = "xoxb-arg"
    /\ env_token = "xoxb-env"
    /\ posts[2].args.token = "xoxb-arg"

====
